---- MODULE Spec2Model ----
(***************************************************************************)
(* AgentHub client (packages/python/agenthub/client.py).                   *)
(*                                                                         *)
(* The client holds one attribute, _http, and offers two coroutines,       *)
(* find_agent and create_session.  Each coroutine evaluates its request    *)
(* arguments, calls the transport once, suspends in `async with` until the *)
(* response is there, suspends again in `await resp.json()`, extracts one  *)
(* field and leaves the `async with` block, which releases the response.   *)
(* The transport (aiohttp) is the environment: it answers a request with   *)
(* any response, or fails it; the caller may cancel a suspended call.      *)
(***************************************************************************)
EXTENDS Naturals, Sequences, FiniteSets

VARIABLES supplied, http, calls, requests, responses, inflight, held

vars == <<supplied, http, calls, requests, responses, inflight, held>>

\* Number of calls the caller makes on the one client instance.
MaxCalls == 2

---------------------------------------------------------------------------
\* Values.  Every JSON value is a record so that any two can be compared.

None == [none |-> TRUE]

Names == {"gpt4", "claude"}

Agent1 == [id |-> "test-agent-1", name |-> "gpt4"]
Agent2 == [id |-> "test-agent-2", name |-> "gpt4"]
AgentNoId == [name |-> "gpt4"]
Agents == {Agent1, Agent2, AgentNoId}

Session1 == [id |-> "test-session-1", agent_id |-> "test-agent-1"]

\* JSON documents the service may send back.
Documents ==
    { [agents |-> <<Agent1, Agent2>>],
      [agents |-> <<Agent2>>],
      [agents |-> <<>>],
      [session |-> Session1] }

\* What the transport has made of a request so far: nothing yet, a
\* failure (connection refused, timeout, ...), or a response whose body
\* is a JSON document or is not JSON at all.
Pending == [kind |-> "pending", valid |-> FALSE, body |-> None]
TransportError == [kind |-> "error", valid |-> FALSE, body |-> None]
Responses ==
    [kind : {"response"}, valid : {TRUE}, body : Documents]
        \cup {[kind |-> "response", valid |-> FALSE, body |-> None]}

\* Transport handles.  "session" is an aiohttp.ClientSession the caller
\* built; "created" is the one __init__ builds; "None" is the default
\* argument.  A ClientSession defines neither __bool__ nor __len__, so
\* every instance is truthy; None is falsy.
SuppliedHandles == {"None", "session"}
Truthy(h) == h # "None"

---------------------------------------------------------------------------
\* AgentHub.__init__ : self._http = http_client or aiohttp.ClientSession()
\* Variant: the supplied transport is ignored.
AgentHub_init_own(http_client) == "created"
AgentHub_init(http_client) ==
    IF Truthy(http_client) THEN http_client ELSE "created"

\* resp.json(): the parsed document, or a parse failure.
json(resp) ==
    IF resp.valid THEN [raised |-> "none", value |-> resp.body]
    ELSE [raised |-> "ParseError", value |-> None]

\* data["agents"][0]
\* Variant: data["agents"][-1].
find_agent_extract_last(data) ==
    IF "agents" \notin DOMAIN data THEN [raised |-> "KeyError", value |-> None]
    ELSE IF Len(data.agents) = 0 THEN [raised |-> "IndexError", value |-> None]
    ELSE [raised |-> "none", value |-> data.agents[Len(data.agents)]]
\* Variant: an empty array yields None instead of raising.
find_agent_extract_default(data) ==
    IF "agents" \notin DOMAIN data THEN [raised |-> "KeyError", value |-> None]
    ELSE IF Len(data.agents) = 0 THEN [raised |-> "none", value |-> None]
    ELSE [raised |-> "none", value |-> data.agents[1]]
find_agent_extract(data) ==
    IF "agents" \notin DOMAIN data THEN [raised |-> "KeyError", value |-> None]
    ELSE IF Len(data.agents) = 0 THEN [raised |-> "IndexError", value |-> None]
    ELSE [raised |-> "none", value |-> data.agents[1]]

\* data["session"]
\* Variant: the whole document is returned.
create_session_extract_body(data) ==
    IF "session" \notin DOMAIN data THEN [raised |-> "KeyError", value |-> None]
    ELSE [raised |-> "none", value |-> data]
create_session_extract(data) ==
    IF "session" \notin DOMAIN data THEN [raised |-> "KeyError", value |-> None]
    ELSE [raised |-> "none", value |-> data.session]

\* {"agent_id": agent["id"]}, evaluated before self._http.post is called
\* Variant: agent.get("id"), which never raises.
create_session_json_get(agent) ==
    IF "id" \notin DOMAIN agent
    THEN [raised |-> "none", value |-> [agent_id |-> "null"]]
    ELSE [raised |-> "none", value |-> [agent_id |-> agent.id]]
create_session_json(agent) ==
    IF "id" \notin DOMAIN agent THEN [raised |-> "KeyError", value |-> None]
    ELSE [raised |-> "none", value |-> [agent_id |-> agent.id]]

\* The request find_agent hands to the transport.
find_agent_request(self_http, name) ==
    [method |-> "GET", path |-> "/agents", params |-> [name |-> name],
     json |-> None, via |-> self_http]

\* The request create_session hands to the transport.
create_session_request(self_http, body) ==
    [method |-> "POST", path |-> "/sessions", params |-> None,
     json |-> body, via |-> self_http]

\* Leaving the `async with` block: the response is released whatever
\* the outcome of the block was.
\* Variant: the response is released on normal return only.
async_with_exit_on_return(h, rid, raised) ==
    IF raised = "none" THEN h \ {rid} ELSE h
async_with_exit(h, rid, raised) == h \ {rid}

---------------------------------------------------------------------------
\* State.
\*   supplied   the http_client argument of the constructor
\*   http       self._http
\*   calls      the coroutines started on the client, in start order
\*   requests   the transport's log of the requests handed to it
\*   responses  the transport's answer to each logged request
\*   inflight   requests submitted and not yet answered, failed or dropped
\*   held       responses acquired by an `async with` and not yet released

Init ==
    /\ supplied \in SuppliedHandles
    /\ http = AgentHub_init(supplied)
    /\ calls = <<>>
    /\ requests = <<>>
    /\ responses = <<>>
    /\ inflight = {}
    /\ held = {}

Call(op, arg, from, pc, rid, result, error) ==
    [op |-> op, arg |-> arg, from |-> from, pc |-> pc, rid |-> rid,
     result |-> result, error |-> error]

\* Handing a request to the transport: it is logged and is in flight.
Submit(c, req) ==
    /\ requests' = Append(requests, [call |-> c, req |-> req])
    /\ responses' = Append(responses, Pending)
    /\ inflight' = inflight \cup {Len(requests) + 1}

\* find_agent(name) up to its first suspension: the GET is built and
\* handed to self._http, and the coroutine waits in `async with`.
\* Variant: a result already returned for the name is reused.
find_agent_cached(name) ==
    /\ Len(calls) < MaxCalls
    /\ LET c == Len(calls) + 1
           hits == {d \in 1..Len(calls) :
                       /\ calls[d].op = "find_agent"
                       /\ calls[d].pc = "returned"
                       /\ calls[d].arg = [name |-> name]}
       IN IF hits # {}
          THEN /\ calls' = Append(calls,
                       Call("find_agent", [name |-> name], 0, "returned", 0,
                            calls[CHOOSE d \in hits : TRUE].result, "none"))
               /\ UNCHANGED <<requests, responses, inflight>>
          ELSE /\ calls' = Append(calls,
                       Call("find_agent", [name |-> name], 0, "request",
                            Len(requests) + 1, None, "none"))
               /\ Submit(c, find_agent_request(http, name))
    /\ UNCHANGED <<supplied, http, held>>
find_agent(name) ==
    /\ Len(calls) < MaxCalls
    /\ LET c == Len(calls) + 1
       IN /\ calls' = Append(calls,
                  Call("find_agent", [name |-> name], 0, "request",
                       Len(requests) + 1, None, "none"))
          /\ Submit(c, find_agent_request(http, name))
    /\ UNCHANGED <<supplied, http, held>>

\* create_session(agent) up to its first suspension.  agent["id"] is
\* looked up while the arguments of self._http.post are evaluated, so a
\* mapping without "id" raises KeyError and post is never called.
\* from names the find_agent call whose result is passed on, 0 for an
\* agent mapping the caller got elsewhere.
create_session(agent, from) ==
    /\ Len(calls) < MaxCalls
    /\ LET c == Len(calls) + 1
           body == create_session_json(agent)
       IN IF body.raised # "none"
          THEN /\ calls' = Append(calls,
                       Call("create_session", agent, from, "raised", 0,
                            None, body.raised))
               /\ UNCHANGED <<requests, responses, inflight>>
          ELSE /\ calls' = Append(calls,
                       Call("create_session", agent, from, "request",
                            Len(requests) + 1, None, "none"))
               /\ Submit(c, create_session_request(http, body.value))
    /\ UNCHANGED <<supplied, http, held>>

\* The transport fails the request of call c: the exception leaves
\* `async with` before a response was acquired and is not caught.
\* Variant: a failed request is submitted again.
request_fail_retry(c) ==
    /\ c \in 1..Len(calls)
    /\ calls[c].pc = "request"
    /\ Len(requests) < 2 * MaxCalls
    /\ requests' = Append(requests, [call |-> c, req |-> requests[calls[c].rid].req])
    /\ responses' = Append([responses EXCEPT ![calls[c].rid] = TransportError], Pending)
    /\ inflight' = (inflight \ {calls[c].rid}) \cup {Len(requests) + 1}
    /\ calls' = [calls EXCEPT ![c].rid = Len(requests) + 1]
    /\ UNCHANGED <<supplied, http, held>>
request_fail(c) ==
    /\ c \in 1..Len(calls)
    /\ calls[c].pc = "request"
    /\ responses' = [responses EXCEPT ![calls[c].rid] = TransportError]
    /\ inflight' = inflight \ {calls[c].rid}
    /\ calls' = [calls EXCEPT ![c].pc = "raised", ![c].error = "TransportError"]
    /\ UNCHANGED <<supplied, http, requests, held>>

\* The response to call c's request arrives: `async with ... as resp`
\* acquires it and the coroutine suspends in `await resp.json()`.
async_with_enter(c, resp) ==
    /\ c \in 1..Len(calls)
    /\ calls[c].pc = "request"
    /\ responses' = [responses EXCEPT ![calls[c].rid] = resp]
    /\ inflight' = inflight \ {calls[c].rid}
    /\ held' = held \cup {calls[c].rid}
    /\ calls' = [calls EXCEPT ![c].pc = "body"]
    /\ UNCHANGED <<supplied, http, requests>>

\* The response whose body call c reads: its own local resp.
\* Variant: the response is kept in one place shared by all calls.
resp_shared(c) == responses[CHOOSE r \in held : \A q \in held : q <= r]
resp_of(c) == responses[calls[c].rid]

\* The outcome of the block of `async with`: the body is parsed, the
\* field is extracted; the first failure is the outcome.
Block(c, extracted) ==
    /\ calls[c].pc = "body"
    /\ calls' = [calls EXCEPT
            ![c].pc = IF extracted.raised = "none" THEN "returned" ELSE "raised",
            ![c].result = extracted.value,
            ![c].error = extracted.raised]
    /\ held' = async_with_exit(held, calls[c].rid, extracted.raised)
    /\ UNCHANGED <<supplied, http, requests, responses, inflight>>

\* find_agent from the completion of resp.json() to its end.
find_agent_body(c) ==
    /\ c \in 1..Len(calls)
    /\ calls[c].op = "find_agent"
    /\ LET data == json(resp_of(c))
       IN Block(c, IF data.raised # "none" THEN data
                   ELSE find_agent_extract(data.value))

\* create_session from the completion of resp.json() to its end.
create_session_body(c) ==
    /\ c \in 1..Len(calls)
    /\ calls[c].op = "create_session"
    /\ LET data == json(resp_of(c))
       IN Block(c, IF data.raised # "none" THEN data
                   ELSE create_session_extract(data.value))

\* The caller cancels call c while it is suspended: CancelledError is
\* raised at the await and is not caught.  Suspended on the request, the
\* transport drops the request; suspended on the body, the exception
\* leaves the `async with` block, which releases the response.
\* Variant: the cancellation is caught and the call returns.
cancel_swallowed(c) ==
    /\ c \in 1..Len(calls)
    /\ calls[c].pc \in {"request", "body"}
    /\ calls' = [calls EXCEPT ![c].pc = "returned"]
    /\ inflight' = inflight \ {calls[c].rid}
    /\ held' = held
    /\ UNCHANGED <<supplied, http, requests, responses>>
cancel(c) ==
    /\ c \in 1..Len(calls)
    /\ calls[c].pc \in {"request", "body"}
    /\ calls' = [calls EXCEPT ![c].pc = "raised", ![c].error = "CancelledError"]
    /\ inflight' = inflight \ {calls[c].rid}
    /\ held' = IF calls[c].pc = "body"
               THEN async_with_exit(held, calls[c].rid, "CancelledError")
               ELSE held
    /\ UNCHANGED <<supplied, http, requests, responses>>

Next ==
    \/ \E name \in Names : find_agent(name)
    \/ \E agent \in Agents : create_session(agent, 0)
    \/ \E from \in 1..Len(calls) :
            /\ calls[from].op = "find_agent"
            /\ calls[from].pc = "returned"
            /\ create_session(calls[from].result, from)
    \/ \E c \in 1..Len(calls) : request_fail(c)
    \/ \E c \in 1..Len(calls), resp \in Responses : async_with_enter(c, resp)
    \/ \E c \in 1..Len(calls) : find_agent_body(c)
    \/ \E c \in 1..Len(calls) : create_session_body(c)
    \/ \E c \in 1..Len(calls) : cancel(c)

Spec == Init /\ [][Next]_vars

---------------------------------------------------------------------------
\* Properties.

CallIds == 1..Len(calls)
RequestsOf(c) == {r \in 1..Len(requests) : requests[r].call = c}

\* Call c has handed its outcome to the caller.
Finished(c) == calls[c].pc \in {"returned", "raised"}

\* The transport answered call c's request with a response (c has a request).
Answered(c) == calls[c].rid # 0 /\ responses[calls[c].rid].kind = "response"

\* Call c ran to its end without being cancelled.
Completed(c) == Finished(c) /\ calls[c].error # "CancelledError"

HasAgents(resp) ==
    resp.valid /\ "agents" \in DOMAIN resp.body /\ Len(resp.body.agents) > 0
HasSession(resp) == resp.valid /\ "session" \in DOMAIN resp.body

\* C1: a completed find_agent(n) whose response carries a non-empty
\* `agents` array has issued exactly one request, that request is
\* GET /agents with query parameter name = n, and it returned the first
\* element of the `agents` array of the response to that request.
C1_FindAgentReturnsFirst ==
    \A c \in CallIds :
        (calls[c].op = "find_agent" /\ Completed(c) /\ Answered(c)
            /\ HasAgents(responses[calls[c].rid]))
        => /\ Cardinality(RequestsOf(c)) = 1
           /\ calls[c].rid \in RequestsOf(c)
           /\ requests[calls[c].rid].req.method = "GET"
           /\ requests[calls[c].rid].req.path = "/agents"
           /\ requests[calls[c].rid].req.params = [name |-> calls[c].arg.name]
           /\ calls[c].pc = "returned"
           /\ calls[c].result = responses[calls[c].rid].body.agents[1]

\* A find_agent returned from a response listing two different agents.
C1_Witness ==
    \E c \in CallIds :
        /\ calls[c].op = "find_agent" /\ calls[c].pc = "returned"
        /\ Len(responses[calls[c].rid].body.agents) = 2
        /\ responses[calls[c].rid].body.agents[1]
               # responses[calls[c].rid].body.agents[2]

\* C2: a completed create_session(a), a containing `id`, whose response
\* contains `session` has issued exactly one request, that request is
\* POST /sessions with JSON body exactly {"agent_id": a["id"]}, and it
\* returned the `session` field of the response unchanged; when a is the
\* result of a preceding find_agent, the agent_id sent is the id of the
\* agent that find_agent returned.
C2_CreateSessionPostsAgentId ==
    \A c \in CallIds :
        (calls[c].op = "create_session" /\ "id" \in DOMAIN calls[c].arg
            /\ Completed(c) /\ Answered(c)
            /\ HasSession(responses[calls[c].rid]))
        => /\ Cardinality(RequestsOf(c)) = 1
           /\ calls[c].rid \in RequestsOf(c)
           /\ requests[calls[c].rid].req.method = "POST"
           /\ requests[calls[c].rid].req.path = "/sessions"
           /\ requests[calls[c].rid].req.json = [agent_id |-> calls[c].arg.id]
           /\ calls[c].pc = "returned"
           /\ calls[c].result = responses[calls[c].rid].body.session
           /\ calls[c].from # 0 =>
                  requests[calls[c].rid].req.json.agent_id
                      = calls[calls[c].from].result.id

\* A create_session returned for the agent an earlier find_agent returned.
C2_Witness ==
    \E c \in CallIds :
        /\ calls[c].op = "create_session" /\ calls[c].pc = "returned"
        /\ calls[c].from # 0
        /\ calls[calls[c].from].pc = "returned"

\* value is what a call of kind op takes from response resp.
Routed(op, resp, value) ==
    IF op = "find_agent"
    THEN HasAgents(resp) /\ value = resp.body.agents[1]
    ELSE HasSession(resp) /\ value = resp.body.session

\* C3: with calls in flight at the same time, interleaved in any order,
\* each call that returns has returned the value taken from the response
\* to its own request, never from the response to another call's request.
C3_NoCrossWiring ==
    \A c \in CallIds :
        calls[c].pc = "returned"
        => /\ calls[c].rid \in RequestsOf(c)
           /\ \A d \in CallIds \ {c} : calls[d].rid # calls[c].rid
           /\ responses[calls[c].rid].kind = "response"
           /\ Routed(calls[c].op, responses[calls[c].rid], calls[c].result)

\* The later call returned, from its own response, while the earlier call
\* is still suspended on the body of a different response.
C3_Witness ==
    \E c, d \in CallIds :
        /\ c < d
        /\ calls[c].pc = "body" /\ calls[d].pc = "returned"
        /\ responses[calls[c].rid] # responses[calls[d].rid]

\* C4: no call has finished, by return or by failure, while a response
\* it acquired is still held.
C4_ResponseReleased ==
    \A c \in CallIds :
        Finished(c) => \A r \in RequestsOf(c) : r \notin held

\* A call failed inside the block after acquiring its response, and
\* another call returned from the block.
C4_Witness ==
    \E c, d \in CallIds :
        /\ calls[c].pc = "raised" /\ Answered(c)
        /\ calls[c].error \in {"ParseError", "KeyError", "IndexError"}
        /\ calls[d].pc = "returned"
        /\ held = {}

\* C5: cancelling a suspended call ends it with a cancellation failure
\* and no result, drops its in-flight request and releases the response
\* it had acquired, and leaves every other call as it was; a cancelled
\* call stays cancelled.
C5_Cancellation ==
    [][\A c \in CallIds :
          /\ cancel(c) =>
                /\ calls'[c].pc = "raised"
                /\ calls'[c].error = "CancelledError"
                /\ calls'[c].result = None
                /\ calls[c].rid \notin inflight'
                /\ calls[c].rid \notin held'
                /\ \A d \in CallIds \ {c} : calls'[d] = calls[d]
                /\ inflight' \ {calls[c].rid} = inflight \ {calls[c].rid}
                /\ held' \ {calls[c].rid} = held \ {calls[c].rid}
                /\ requests' = requests /\ responses' = responses
          /\ calls[c].error = "CancelledError" =>
                /\ calls'[c] = calls[c]
                /\ calls[c].rid \notin inflight' \cup held'
      ]_vars

\* One call was cancelled while reading the body of its response, after
\* which (or beside which) another call returned.
C5_Witness ==
    \E c, d \in CallIds :
        /\ calls[c].error = "CancelledError" /\ Answered(c)
        /\ calls[d].pc = "returned"

\* C6: a completed find_agent whose response has an empty `agents` array
\* failed with IndexError, a completed create_session whose response has
\* no `session` field failed with KeyError, and neither produced a value.
C6_ShapeFailure ==
    \A c \in CallIds :
        (Completed(c) /\ Answered(c) /\ responses[calls[c].rid].valid)
        => LET body == responses[calls[c].rid].body
           IN /\ (calls[c].op = "find_agent" /\ "agents" \in DOMAIN body
                    /\ Len(body.agents) = 0)
                  => /\ calls[c].pc = "raised"
                     /\ calls[c].error = "IndexError"
                     /\ calls[c].result = None
              /\ (calls[c].op = "create_session" /\ "session" \notin DOMAIN body)
                  => /\ calls[c].pc = "raised"
                     /\ calls[c].error = "KeyError"
                     /\ calls[c].result = None

\* A find_agent failed on an empty array and a create_session on a
\* document without `session`.
C6_Witness ==
    \E c, d \in CallIds :
        /\ calls[c].op = "find_agent" /\ calls[c].error = "IndexError"
        /\ calls[d].op = "create_session" /\ calls[d].error = "KeyError"
        /\ Answered(d)

\* C7: create_session on an agent mapping without `id` has failed with
\* KeyError, has issued no request and has acquired no response.
C7_MissingIdBeforeRequest ==
    \A c \in CallIds :
        (calls[c].op = "create_session" /\ "id" \notin DOMAIN calls[c].arg)
        => /\ calls[c].pc = "raised"
           /\ calls[c].error = "KeyError"
           /\ RequestsOf(c) = {}
           /\ calls[c].rid = 0

\* create_session was called without `id` while the transport was in use.
C7_Witness ==
    \E c \in CallIds :
        /\ calls[c].op = "create_session" /\ "id" \notin DOMAIN calls[c].arg
        /\ Len(requests) > 0

\* C8: every call has submitted at most one request; a call whose request
\* the transport failed has failed with that transport error, a completed
\* call whose body did not parse has failed with that parse error, and
\* neither has a value.
C8_NoRetryNoFallback ==
    \A c \in CallIds :
        /\ Cardinality(RequestsOf(c)) <= 1
        /\ \A r \in RequestsOf(c) :
              /\ responses[r].kind = "error"
                    => /\ calls[c].pc = "raised"
                       /\ calls[c].error = "TransportError"
                       /\ calls[c].result = None
              /\ (responses[r].kind = "response" /\ ~responses[r].valid
                     /\ Completed(c))
                    => /\ calls[c].pc = "raised"
                       /\ calls[c].error = "ParseError"
                       /\ calls[c].result = None

\* One call's request was failed by the transport and another call's
\* body did not parse.
C8_Witness ==
    \E c, d \in CallIds :
        /\ calls[c].error = "TransportError"
        /\ calls[d].error = "ParseError"

\* C9: two returned find_agent calls with the same name have issued two
\* separate GET requests, each has returned the first agent of the
\* response to its own request, and so they agree when the two responses
\* are equal and the later one follows the later response when not.
C9_NoCache ==
    \A c, d \in CallIds :
        (c # d /\ calls[c].op = "find_agent" /\ calls[d].op = "find_agent"
            /\ calls[c].arg = calls[d].arg
            /\ calls[c].pc = "returned" /\ calls[d].pc = "returned")
        => /\ calls[c].rid # calls[d].rid
           /\ RequestsOf(c) = {calls[c].rid}
           /\ RequestsOf(d) = {calls[d].rid}
           /\ requests[calls[d].rid].req.method = "GET"
           /\ calls[d].result = responses[calls[d].rid].body.agents[1]
           /\ responses[calls[c].rid] = responses[calls[d].rid]
                  => calls[c].result = calls[d].result

\* Two find_agent calls with one name returned different agents, the
\* transport's answer having changed.
C9_Witness ==
    \E c, d \in CallIds :
        /\ c < d
        /\ calls[c].op = "find_agent" /\ calls[d].op = "find_agent"
        /\ calls[c].arg = calls[d].arg
        /\ calls[c].pc = "returned" /\ calls[d].pc = "returned"
        /\ calls[c].result # calls[d].result

====
